---- MODULE Spec2Model ----
(***************************************************************************)
(* The reader of ZachLisp: token::tokenize, the recursive-descent reader   *)
(* (read_forms / read_form / read_coll / expand_quoted_form /              *)
(* expand_meta_quoted_form) and the structural hash / equality of forms,   *)
(* as written in src/read.hpp and, where it differs (form::hash,           *)
(* form::equals), in src/zachlisp.hpp.                                     *)
(*                                                                         *)
(* A text is a sequence of one-character strings.  The recursion of the    *)
(* reader is unfolded into an explicit call stack: one action per branch   *)
(* of each function, it is the token cursor (Len(tokens)+1 is            *)
(* tokens->end()), ret the form a call has just returned.                *)
(***************************************************************************)
EXTENDS Integers, Sequences, FiniteSets, TLC

VARIABLES
    lib,      \* which header is compiled: "read" (read.hpp) or "zachlisp" (zachlisp.hpp)
    input,    \* the text handed to read
    pc,       \* where the program is
    pos,      \* tokenize: offset of the next match in input (1-based)
    line,     \* tokenize: the line counter
    tokens,   \* the std::list<Token> built by tokenize
    it,       \* the reader's cursor into tokens
    stack,    \* the open calls of read_coll / expand_quoted_form / expand_meta_quoted_form
    ret,      \* the form returned by the call that has just finished, as a 0/1-element sequence
    forms,    \* read_forms: the top-level forms pushed so far
    nptr,     \* number of Map/Set objects allocated (make_shared) so far
    log,      \* history: every list_to_map / list_to_set call, its argument and result
    first     \* rep: the text first read and the forms READ returned for it, once they are printed

vars == <<lib, input, pc, pos, line, tokens, it, stack, ret, forms, nptr, log, first>>

----------------------------------------------------------------------------
(* Bounds *)

\* an input is the concatenation of at most MaxChunks chunks of Alphabet
MaxChunks == 2

\* std::size_t is modelled HashBits wide
HashBits == 16

----------------------------------------------------------------------------
(* Characters *)

DQ == "\""
BS == "\\"
NL == "\n"
\* the backquote character, named because a TLA+ string cannot hold it
BQ == "backquote"

Digits == {"0", "1", "2", "3", "4", "5", "6", "7", "8", "9"}

\* [\s,]
WhitespaceClass == {" ", NL, "\t", ","}

\* the class of the third alternative: brackets, braces, parentheses and the sugar characters
SpecialCharClass == {"[", "]", "{", "}", "(", ")", "'", BQ, "~", "^", "@"}

\* the characters excluded by the character class of the symbol alternative
SymbolExcluded == WhitespaceClass \cup {"[", "]", "{", "}", "(", "'", DQ, BQ, ",", ";", ")"}

DigitVal(c) ==
    CASE c = "0" -> 0 [] c = "1" -> 1 [] c = "2" -> 2 [] c = "3" -> 3 [] c = "4" -> 4
      [] c = "5" -> 5 [] c = "6" -> 6 [] c = "7" -> 7 [] c = "8" -> 8 [] c = "9" -> 9

\* the character code of c (ASCII)
Ord(c) ==
    CASE c \in Digits -> 48 + DigitVal(c)
      [] c = " " -> 32 [] c = NL -> 10 [] c = "\t" -> 9 [] c = "," -> 44
      [] c = DQ -> 34 [] c = BS -> 92 [] c = "#" -> 35 [] c = "'" -> 39
      [] c = "(" -> 40 [] c = ")" -> 41 [] c = "+" -> 43 [] c = "-" -> 45
      [] c = "." -> 46 [] c = ";" -> 59 [] c = "@" -> 64 [] c = "[" -> 91
      [] c = "]" -> 93 [] c = "^" -> 94 [] c = BQ -> 96 [] c = "{" -> 123
      [] c = "}" -> 125 [] c = "~" -> 126
      [] c = "a" -> 97 [] c = "b" -> 98 [] c = "c" -> 99 [] c = "d" -> 100
      [] c = "e" -> 101 [] c = "f" -> 102 [] c = "l" -> 108 [] c = "m" -> 109
      [] c = "q" -> 113 [] c = "r" -> 114 [] c = "s" -> 115 [] c = "t" -> 116
      [] c = "u" -> 117 [] c = "x" -> 120
      [] OTHER -> 63

----------------------------------------------------------------------------
(* token::REGEX: the length each alternative matches at offset p of s, 0 when it does not match *)

RECURSIVE RunLen(_, _, _)
\* the length of the longest run of characters of class cls starting at s[p]
RunLen(s, p, cls) ==
    IF p <= Len(s) /\ s[p] \in cls THEN 1 + RunLen(s, p + 1, cls) ELSE 0

RECURSIVE RunLenNot(_, _, _)
\* the length of the longest run of characters outside cls starting at s[p]
RunLenNot(s, p, cls) ==
    IF p <= Len(s) /\ s[p] \notin cls THEN 1 + RunLenNot(s, p + 1, cls) ELSE 0

\* ([\s,]+)
MatchWhitespace(s, p) == RunLen(s, p, WhitespaceClass)

\* (~@|#\{)
MatchSpecialChars(s, p) ==
    IF p + 1 <= Len(s) /\ <<s[p], s[p + 1]>> \in {<<"~", "@">>, <<"#", "{">>} THEN 2 ELSE 0

\* the single special characters (third alternative)
MatchSpecialChar(s, p) ==
    IF p <= Len(s) /\ s[p] \in SpecialCharClass THEN 1 ELSE 0

RECURSIVE StringBody(_, _)
\* the body of the string alternative (an escaped pair, or a character that is neither backslash nor quote) from offset p: the number of characters the greedy loop consumes
StringBody(s, p) ==
    IF p > Len(s) THEN 0
    ELSE IF s[p] = BS
         THEN IF p + 1 <= Len(s) /\ s[p + 1] # NL
              THEN 2 + StringBody(s, p + 2)
              ELSE 0
         ELSE IF s[p] # DQ THEN 1 + StringBody(s, p + 1) ELSE 0

\* the string alternative: a quote, the greedy body, an optional closing quote
MatchString(s, p) ==
    IF p <= Len(s) /\ s[p] = DQ
    THEN LET body == StringBody(s, p + 1)
             q == p + 1 + body
         IN 1 + body + (IF q <= Len(s) /\ s[q] = DQ THEN 1 ELSE 0)
    ELSE 0

\* (;.*)
MatchComment(s, p) ==
    IF p <= Len(s) /\ s[p] = ";" THEN 1 + RunLenNot(s, p + 1, {NL}) ELSE 0

\* not the code: the number alternative never matches
MatchNumber_Never(s, p) == 0

\* (\d+\.?\d*)
MatchNumber(s, p) ==
    LET int == RunLen(s, p, Digits)
        dot == IF int > 0 /\ p + int <= Len(s) /\ s[p + int] = "." THEN 1 ELSE 0
    IN IF int = 0 THEN 0 ELSE int + dot + RunLen(s, p + int + dot, Digits)

\* the symbol alternative: a run of characters outside SymbolExcluded
MatchSymbol(s, p) == RunLenNot(s, p, SymbolExcluded)

\* the first alternative, in the order of the pattern, that matches a non-empty
\* span at offset p, and the length of its match
REGEX(s, p) ==
    IF MatchWhitespace(s, p) > 0 THEN [type |-> "WHITESPACE", len |-> MatchWhitespace(s, p)]
    ELSE IF MatchSpecialChars(s, p) > 0 THEN [type |-> "SPECIAL_CHARS", len |-> 2]
    ELSE IF MatchSpecialChar(s, p) > 0 THEN [type |-> "SPECIAL_CHAR", len |-> 1]
    ELSE IF MatchString(s, p) > 0 THEN [type |-> "STRING", len |-> MatchString(s, p)]
    ELSE IF MatchComment(s, p) > 0 THEN [type |-> "COMMENT", len |-> MatchComment(s, p)]
    ELSE IF MatchNumber(s, p) > 0 THEN [type |-> "NUMBER", len |-> MatchNumber(s, p)]
    ELSE [type |-> "SYMBOL", len |-> MatchSymbol(s, p)]

----------------------------------------------------------------------------
(* token::value::Value, a std::variant<bool, char, long, double, std::string>.
   A long is kept as its decimal digits without leading zeros, a double as
   the digits of its integer part and of its fraction without trailing
   zeros (exact for the short literals of the model). *)

RECURSIVE StripLeadingZeros(_)
StripLeadingZeros(d) ==
    IF Len(d) > 1 /\ d[1] = "0" THEN StripLeadingZeros(Tail(d)) ELSE d

RECURSIVE StripTrailingZeros(_)
StripTrailingZeros(d) ==
    IF Len(d) > 0 /\ d[Len(d)] = "0" THEN StripTrailingZeros(SubSeq(d, 1, Len(d) - 1)) ELSE d

\* LONG_MAX of a 64-bit long, 2^63 - 1
LONG_MAX_DIGITS ==
    <<"9", "2", "2", "3", "3", "7", "2", "0", "3", "6", "8", "5", "4", "7", "7", "5", "8", "0", "7">>

RECURSIVE DigitsGreater(_, _)
\* a > b for two digit strings of the same length
DigitsGreater(a, b) ==
    IF Len(a) = 0 THEN FALSE
    ELSE IF a[1] # b[1] THEN DigitVal(a[1]) > DigitVal(b[1])
    ELSE DigitsGreater(Tail(a), Tail(b))

\* std::stol(value) throws std::out_of_range: the digits denote more than LONG_MAX
stol_throws(value) ==
    \E d \in {StripLeadingZeros(value)} :
        \/ Len(d) > Len(LONG_MAX_DIGITS)
        \/ Len(d) = Len(LONG_MAX_DIGITS) /\ DigitsGreater(d, LONG_MAX_DIGITS)

\* std::stol(value) when it returns
stol(value) == [index |-> "LONG", digits |-> StripLeadingZeros(value)]

HasDot(value) == \E i \in 1..Len(value) : value[i] = "."

\* std::stod(value), value matching digits, a dot, digits
stod(value) ==
    LET dot == CHOOSE i \in 1..Len(value) : value[i] = "."
    IN [index |-> "DOUBLE",
        ip |-> StripLeadingZeros(SubSeq(value, 1, dot - 1)),
        fp |-> StripTrailingZeros(SubSeq(value, dot + 1, Len(value)))]

\* token::parse throws (the exception leaves tokenize and read)
parse_throws(value, type) ==
    type = "NUMBER" /\ ~HasDot(value) /\ stol_throws(value)

\* token::parse when it returns
parse(value, type) ==
    CASE type = "SPECIAL_CHAR" -> [index |-> "CHAR", c |-> value[1]]
      [] type = "NUMBER" -> IF ~HasDot(value) THEN stol(value) ELSE stod(value)
      [] type = "SYMBOL" /\ value = <<"t", "r", "u", "e">> -> [index |-> "BOOL", b |-> TRUE]
      [] type = "SYMBOL" /\ value = <<"f", "a", "l", "s", "e">> -> [index |-> "BOOL", b |-> FALSE]
      [] OTHER -> [index |-> "STRING", s |-> value]

\* struct Token
Token(v, t, l, c) == [value |-> v, type |-> t, line |-> l, column |-> c]

\* Token::operator==
TokenEq(t1, t2) == t1.value = t2.value /\ t1.type = t2.type

\* the number of newline characters of s
CountNewlines(s) == Cardinality({i \in 1..Len(s) : s[i] = NL})

----------------------------------------------------------------------------
(* form::Form, a std::variant<Special, Token, list, vector, shared_ptr<Map>, shared_ptr<Set>>.
   A std::optional is a sequence of length 0 or 1.  A Map or Set holds the
   address of its shared object (ptr) and the content of the object in the
   order the container iterates it. *)

Special(name, message, token) ==
    [tag |-> "SPECIAL", name |-> name, message |-> message, token |-> token]

Scalar(token) == [tag |-> "TOKEN", token |-> token]

List(items) == [tag |-> "LIST", items |-> items]

Vector(items) == [tag |-> "VECTOR", items |-> items]

Map(ptr, entries) == [tag |-> "MAP", ptr |-> ptr, entries |-> entries]

Set(ptr, items) == [tag |-> "SET", ptr |-> ptr, items |-> items]

----------------------------------------------------------------------------
(* hash_combine and std::hash *)

RECURSIVE Pow2(_)
Pow2(n) == IF n = 0 THEN 1 ELSE 2 * Pow2(n - 1)

\* the number of values of the modelled std::size_t
HashMod == Pow2(HashBits)

RECURSIVE Xor(_, _)
\* a ^ b
Xor(a, b) ==
    IF a = 0 THEN b
    ELSE IF b = 0 THEN a
    ELSE ((a + b) % 2) + 2 * Xor(a \div 2, b \div 2)

\* the two 16-bit halves of the constant 0x9e3779b9
GOLDEN_HI == 40503
GOLDEN_LO == 31161

\* 0x9e3779b9 as a std::size_t of HashBits bits
GOLDEN ==
    IF HashBits <= 16 THEN GOLDEN_LO % HashMod
    ELSE GOLDEN_LO + 65536 * (GOLDEN_HI % Pow2(HashBits - 16))

\* seed ^= h + 0x9e3779b9 + (seed << 6) + (seed >> 2), h being hasher(v)
hash_combine(seed, h) ==
    Xor(seed, (h + GOLDEN + ((seed * 64) % HashMod) + (seed \div 4)) % HashMod)

RECURSIVE CombineAll(_, _)
\* hash_combine of each member of hs, in order, into seed
CombineAll(seed, hs) ==
    IF hs = <<>> THEN seed ELSE CombineAll(hash_combine(seed, Head(hs)), Tail(hs))

RECURSIVE std_hash_string(_)
\* std::hash<std::string>: implementation-defined, modelled as a polynomial
\* of the character codes
std_hash_string(s) ==
    IF s = <<>> THEN 7
    ELSE (31 * std_hash_string(SubSeq(s, 1, Len(s) - 1)) + Ord(s[Len(s)])) % HashMod

RECURSIVE DigitsMod(_)
\* the number the digits d denote, modulo HashMod
DigitsMod(d) ==
    IF d = <<>> THEN 0
    ELSE (10 * DigitsMod(SubSeq(d, 1, Len(d) - 1)) + DigitVal(d[Len(d)])) % HashMod

\* std::hash<token::value::Value>: the index of the alternative plus the hash
\* of the value it holds
std_hash_value(v) ==
    CASE v.index = "BOOL" -> IF v.b THEN 1 ELSE 0
      [] v.index = "CHAR" -> 1 + Ord(v.c)
      [] v.index = "LONG" -> (2 + DigitsMod(v.digits)) % HashMod
      [] v.index = "DOUBLE" -> (3 + 1000 * DigitsMod(v.ip) + std_hash_string(v.fp)) % HashMod
      [] v.index = "STRING" -> (4 + std_hash_string(v.s)) % HashMod

\* not the code: the position of the token is hashed with its value
std_hash_Token_WithPosition(x) == (std_hash_value(x.value) + x.column) % HashMod

\* std::hash<zachlisp::token::Token>
std_hash_Token(x) == std_hash_value(x.value)

\* the messages of the reader's errors
UnmatchedDelimiter(c) ==
    CASE c = ")" -> "Unmatched delimiter: )"
      [] c = "]" -> "Unmatched delimiter: ]"
      [] c = "}" -> "Unmatched delimiter: }"

\* not the code: the message names the parenthesis whatever the collection
EOFNoDelimiter_AlwaysParen(c) == "EOF: no ) found"

EOFNoDelimiter(c) ==
    CASE c = ")" -> "EOF: no ) found"
      [] c = "]" -> "EOF: no ] found"
      [] c = "}" -> "EOF: no } found"

\* std::hash<std::string> of an error message: implementation-defined,
\* modelled by a table that, as a real hash almost surely does, tells the
\* messages apart
std_hash_message(m) ==
    CASE m = "Unmatched delimiter: )" -> 4001
      [] m = "Unmatched delimiter: ]" -> 4002
      [] m = "Unmatched delimiter: }" -> 4003
      [] m = "EOF: no ) found" -> 4004
      [] m = "EOF: no ] found" -> 4005
      [] m = "EOF: no } found" -> 4006
      [] m = "Map must contain even number of forms" -> 4007
      [] m = "EOF: unbalanced quote" -> 4008
      [] m = "EOF: Nothing found after quote" -> 4009
      [] m = "EOF: Nothing found after metadata" -> 4010
      [] m = "EOF: Nothing found after ^" -> 4011
      [] OTHER -> 4000

\* std::hash<zachlisp::form::Special>
std_hash_Special(x) == std_hash_message(x.message)

----------------------------------------------------------------------------
(* form::hash and form::equals of read.hpp *)

RECURSIVE hash(_)

RECURSIVE HashEach(_)
\* hash of each member of a sequence of forms
HashEach(list) ==
    IF list = <<>> THEN <<>> ELSE <<hash(Head(list))>> \o HashEach(Tail(list))

\* template hash(T list): the elements combined in traversal order
hash_list(list) == CombineAll(0, HashEach(list))

\* hash(FormWrapperSet): the element hashes, sorted, then combined
hash_set(items) ==
    CombineAll(0, SortSeq(HashEach(items), LAMBDA a, b : a < b))

RECURSIVE EntryHashes(_)
\* hash(FormWrapperMap), first loop: hash_combine(hash, item.first, item.second) from 0
EntryHashes(entries) ==
    IF entries = <<>> THEN <<>>
    ELSE <<CombineAll(0, <<hash(Head(entries)[1]), hash(Head(entries)[2])>>)>>
             \o EntryHashes(Tail(entries))

\* hash(FormWrapperMap): the entry hashes, sorted, then combined
hash_map(entries) ==
    CombineAll(0, SortSeq(EntryHashes(entries), LAMBDA a, b : a < b))

\* form::hash(const FormWrapper &)
hash(fw) ==
    CASE fw.tag = "SPECIAL" -> std_hash_Special(fw)
      [] fw.tag = "TOKEN" -> std_hash_Token(fw.token)
      [] fw.tag = "LIST" -> hash_list(fw.items)
      [] fw.tag = "VECTOR" -> hash_list(fw.items)
      [] fw.tag = "MAP" -> hash_map(fw.entries)
      [] fw.tag = "SET" -> hash_set(fw.items)

\* form::equals
equals(fw1, fw2) == hash(fw1) = hash(fw2)

----------------------------------------------------------------------------
(* form::hash and form::equals of zachlisp.hpp *)

RECURSIVE hashZ(_)
RECURSIVE equalsZ(_, _)

RECURSIVE HashEachZ(_)
HashEachZ(list) ==
    IF list = <<>> THEN <<>> ELSE <<hashZ(Head(list))>> \o HashEachZ(Tail(list))

\* hashColl: the elements combined in traversal order (list, vector and set alike)
hashColl(list) == CombineAll(0, HashEachZ(list))

RECURSIVE hashMap(_, _)
\* hashMap: hash_combine(ret, item.first, item.second) for each entry, in traversal order
hashMap(seed, entries) ==
    IF entries = <<>> THEN seed
    ELSE hashMap(CombineAll(seed, <<hashZ(Head(entries)[1]), hashZ(Head(entries)[2])>>),
                 Tail(entries))

\* form::hash of zachlisp.hpp
hashZ(fw) ==
    CASE fw.tag = "SPECIAL" -> std_hash_Special(fw)
      [] fw.tag = "TOKEN" -> std_hash_Token(fw.token)
      [] fw.tag = "LIST" -> hashColl(fw.items)
      [] fw.tag = "VECTOR" -> hashColl(fw.items)
      [] fw.tag = "MAP" -> hashMap(0, fw.entries)
      [] fw.tag = "SET" -> hashColl(fw.items)

\* std::optional<Token>::operator==
OptTokenEq(o1, o2) ==
    /\ Len(o1) = Len(o2)
    /\ Len(o1) = 1 => TokenEq(o1[1], o2[1])

\* ReaderError::operator==
ReaderErrorEq(e1, e2) == e1.message = e2.message /\ OptTokenEq(e1.token, e2.token)

RECURSIVE ItemsEqZ(_, _)
\* operator== of std::list / std::vector of FormWrapper: same size, equal element by element
ItemsEqZ(l1, l2) ==
    /\ Len(l1) = Len(l2)
    /\ \A i \in 1..Len(l1) : equalsZ(l1[i], l2[i])

\* form::equals of zachlisp.hpp, operator== of the variant: the same
\* alternative and equal values; a shared_ptr compares the addresses
equalsZ(fw1, fw2) ==
    /\ fw1.tag = fw2.tag
    /\ CASE fw1.tag = "SPECIAL" -> ReaderErrorEq(fw1, fw2)
         [] fw1.tag = "TOKEN" -> TokenEq(fw1.token, fw2.token)
         [] fw1.tag = "LIST" -> ItemsEqZ(fw1.items, fw2.items)
         [] fw1.tag = "VECTOR" -> ItemsEqZ(fw1.items, fw2.items)
         [] fw1.tag = "MAP" -> fw1.ptr = fw2.ptr
         [] fw1.tag = "SET" -> fw1.ptr = fw2.ptr

----------------------------------------------------------------------------
(* The lookup tables and the conversions of an element list into a Map or a Set *)

\* not the code: every sugar token is named quote
SYMBOL_TO_NAME_AllQuote(k) == <<"q", "u", "o", "t", "e">>

\* SYMBOL_TO_NAME, keyed by the text of the sugar token
SYMBOL_TO_NAME(k) ==
    CASE k = <<"'">> -> <<"q", "u", "o", "t", "e">>
      [] k = <<BQ>> -> <<"q", "u", "a", "s", "i", "q", "u", "o", "t", "e">>
      [] k = <<"~">> -> <<"u", "n", "q", "u", "o", "t", "e">>
      [] k = <<"@">> -> <<"d", "e", "r", "e", "f">>
      [] k = <<"^">> -> <<"w", "i", "t", "h", "-", "m", "e", "t", "a">>
      [] k = <<"~", "@">> -> <<"s", "p", "l", "i", "c", "e", "-", "u", "n", "q", "u", "o", "t", "e">>

\* DELIMITER_TO_TYPE, keyed by the text of the opening token
DELIMITER_TO_TYPE(k) ==
    CASE k = <<"(">> -> "LIST"
      [] k = <<"[">> -> "VECTOR"
      [] k = <<"{">> -> "MAP"
      [] k = <<"#", "{">> -> "SET"

\* TYPE_TO_DELIMITER
TYPE_TO_DELIMITER(t) ==
    CASE t = "LIST" -> ")"
      [] t = "VECTOR" -> "]"
      [] t = "MAP" -> "}"
      [] t = "SET" -> "}"

\* the Hash and KeyEqual of FormWrapperMap / FormWrapperSet: a key is taken
\* for one already stored when both hash alike and FormWrapperEquality holds
SameKey(l, a, b) ==
    IF l = "read" THEN hash(a) = hash(b) /\ equals(a, b)
    ELSE hashZ(a) = hashZ(b) /\ equalsZ(a, b)

RECURSIVE InsertItems(_, _, _)
\* s->insert(it, item) for each item of list: an item whose key is stored already is dropped
InsertItems(l, acc, list) ==
    IF list = <<>> THEN acc
    ELSE InsertItems(l,
                     IF \E i \in 1..Len(acc) : SameKey(l, acc[i], Head(list))
                     THEN acc ELSE Append(acc, Head(list)),
                     Tail(list))

RECURSIVE InsertPairs_KeepingLast(_, _, _)
\* not the code: a pair whose key is stored already takes the place of the stored pair
InsertPairs_KeepingLast(l, acc, list) ==
    IF Len(list) < 2 THEN acc
    ELSE InsertPairs_KeepingLast(l,
             IF \E i \in 1..Len(acc) : SameKey(l, acc[i][1], list[1])
             THEN [i \in 1..Len(acc) |->
                      IF SameKey(l, acc[i][1], list[1]) THEN <<list[1], list[2]>> ELSE acc[i]]
             ELSE Append(acc, <<list[1], list[2]>>),
             SubSeq(list, 3, Len(list)))

RECURSIVE InsertPairs(_, _, _)
\* m->insert(map_it, std::pair(key, val)) for each complete pair of list
InsertPairs(l, acc, list) ==
    IF Len(list) < 2 THEN acc
    ELSE InsertPairs(l,
                     IF \E i \in 1..Len(acc) : SameKey(l, acc[i][1], list[1])
                     THEN acc ELSE Append(acc, <<list[1], list[2]>>),
                     SubSeq(list, 3, Len(list)))

\* the permutations of 1..n: the orders in which an unordered container of n
\* members may iterate them
Orders(n) == {p \in [1..n -> 1..n] : \A i, j \in 1..n : p[i] = p[j] => i = j}

Reorder(seq, order) == [i \in 1..Len(seq) |-> seq[order[i]]]

\* the number of members the container built from list holds
StoredCount(l, form_type, list) ==
    CASE form_type = "SET" -> Len(InsertItems(l, <<>>, list))
      [] form_type = "MAP" /\ Len(list) % 2 = 0 -> Len(InsertPairs(l, <<>>, list))
      [] OTHER -> 0

\* list_to_vector
list_to_vector(list) == Vector(list)

\* not the code: the count is not tested and the last, unpaired form is dropped
list_to_map_NoOddCheck(list, ptr, order) ==
    Map(ptr, Reorder(InsertPairs("read", <<>>, list), order))

\* list_to_map of read.hpp; ptr is the address make_shared returns, order the
\* iteration order of the finished unordered_map
list_to_map(list, ptr, order) ==
    IF Len(list) % 2 = 1
    THEN Special("ReaderError", "Map must contain even number of forms", <<>>)
    ELSE Map(ptr, Reorder(InsertPairs("read", <<>>, list), order))

\* list_to_set of read.hpp
list_to_set(list, ptr, order) ==
    Set(ptr, Reorder(InsertItems("read", <<>>, list), order))

\* listToMap of zachlisp.hpp
listToMap(list, ptr, order) ==
    IF Len(list) % 2 = 1
    THEN Special("ReaderError", "Map must contain even number of forms", <<>>)
    ELSE Map(ptr, Reorder(InsertPairs("zachlisp", <<>>, list), order))

\* listToSet of zachlisp.hpp
listToSet(list, ptr, order) ==
    Set(ptr, Reorder(InsertItems("zachlisp", <<>>, list), order))

\* not the code: the forms that are errors are left out of the collection returned
CollForm_DroppingErrors(l, form_type, list, ptr, order) ==
    LET kept == SelectSeq(list, LAMBDA f : f.tag # "SPECIAL")
    IN CASE form_type = "VECTOR" -> list_to_vector(kept)
         [] form_type = "MAP" ->
               IF l = "read" THEN list_to_map(list, ptr, order) ELSE listToMap(list, ptr, order)
         [] form_type = "SET" ->
               IF l = "read" THEN list_to_set(list, ptr, order) ELSE listToSet(list, ptr, order)
         [] OTHER -> List(kept)

\* the form read_coll returns on meeting its end delimiter (the inner switch)
CollForm(l, form_type, list, ptr, order) ==
    CASE form_type = "VECTOR" -> list_to_vector(list)
      [] form_type = "MAP" ->
            IF l = "read" THEN list_to_map(list, ptr, order) ELSE listToMap(list, ptr, order)
      [] form_type = "SET" ->
            IF l = "read" THEN list_to_set(list, ptr, order) ELSE listToSet(list, ptr, order)
      [] OTHER -> List(list)

----------------------------------------------------------------------------
(* The inputs *)

RECURSIVE Concat(_)
Concat(chunks) == IF chunks = <<>> THEN <<>> ELSE Head(chunks) \o Concat(Tail(chunks))

\* the building blocks of the enumerated inputs
Alphabet ==
    { <<"(">>, <<")">>, <<"[">>, <<"]">>, <<"{">>, <<"}">>, <<"#", "{">>,
      <<"'">>, <<BQ>>, <<"~">>, <<"@">>, <<"^">>, <<"~", "@">>,
      <<DQ>>, <<DQ, "a", DQ>>, <<DQ, BS, DQ>>, <<BS>>,
      <<"a">>, <<"1">>, <<"2">>, <<" ">>, <<NL>>, <<";">>,
      <<"1", ".", "5">>, <<"t", "r", "u", "e">>,
      <<"9", "2", "2", "3", "3", "7", "2", "0", "3", "6", "8", "5", "4", "7", "7", "5", "8", "0", "7">>,
      <<"9", "2", "2", "3", "3", "7", "2", "0", "3", "6", "8", "5", "4", "7", "7", "5", "8", "0", "8">>,
      <<"9", "9", "9", "9", "9", "9", "9", "9", "9", "9", "9", "9", "9", "9", "9", "9", "9", "9", "9", "9">> }

\* longer texts, one per line as read by the comment above it
Curated ==
    { \* (1 {2} 3) 4
      <<"(", "1", " ", "{", "2", "}", " ", "3", ")", " ", "4">>,
      \* a set literal listing the map {1 2} twice
      <<"#", "{", "{", "1", " ", "2", "}", " ", "{", "1", " ", "2", "}", "}">>,
      \* a set literal listing () and []
      <<"#", "{", "(", ")", " ", "[", "]", "}">>,
      \* the set of a, b and the set of b, a
      <<"#", "{", "a", " ", "b", "}", " ", "#", "{", "b", " ", "a", "}">>,
      \* {a 1 b 2} {b 2 a 1}
      <<"{", "a", " ", "1", " ", "b", " ", "2", "}", " ", "{", "b", " ", "2", " ", "a", " ", "1", "}">>,
      \* {() 1 [] 2} {[] 2 () 1}
      <<"{", "(", ")", " ", "1", " ", "[", "]", " ", "2", "}", " ",
        "{", "[", "]", " ", "2", " ", "(", ")", " ", "1", "}">>,
      \* 'a 'a
      <<"'", "a", " ", "'", "a">>,
      \* {1} (
      <<"{", "1", "}", " ", "(">>,
      \* (1 [2} 3) 4
      <<"(", "1", " ", "[", "2", "}", " ", "3", ")", " ", "4">>,
      \* ^{a 1} [2] 3
      <<"^", "{", "a", " ", "1", "}", " ", "[", "2", "]", " ", "3">>,
      \* (1 2 3)
      <<"(", "1", " ", "2", " ", "3", ")">>,
      \* (+ 1 2)
      <<"(", "+", " ", "1", " ", "2", ")">>,
      \* [a ;b and, on the next line, 1]
      <<"[", "a", " ", ";", "b", NL, " ", "1", "]">>,
      \* {a 1 a 2} #{a a}
      <<"{", "a", " ", "1", " ", "a", " ", "2", "}", " ", "#", "{", "a", " ", "a", "}">> }

\* every text the model reads
Inputs ==
    {Concat(cs) : cs \in UNION {[1..n -> Alphabet] : n \in 0..MaxChunks}} \cup Curated

----------------------------------------------------------------------------
(* tokenize *)

Init ==
    /\ lib = "read"
    /\ input \in Inputs
    /\ pc = "tokenize"
    /\ pos = 1
    /\ line = 1
    /\ tokens = <<>>
    /\ it = 1
    /\ stack = <<>>
    /\ ret = <<>>
    /\ forms = <<>>
    /\ nptr = 0
    /\ log = <<>>
    /\ first = <<>>

InitZ ==
    /\ lib = "zachlisp"
    /\ input \in Inputs
    /\ pc = "tokenize"
    /\ pos = 1
    /\ line = 1
    /\ tokens = <<>>
    /\ it = 1
    /\ stack = <<>>
    /\ ret = <<>>
    /\ forms = <<>>
    /\ nptr = 0
    /\ log = <<>>
    /\ first = <<>>

\* the text of the match at pos
MatchStr == SubSeq(input, pos, pos + REGEX(input, pos).len - 1)

\* one iteration of the loop over the matches: the token is parsed and pushed
tokenize_match ==
    /\ pc = "tokenize"
    /\ pos <= Len(input)
    /\ \E match \in {REGEX(input, pos)} : \E str \in {MatchStr} :
           /\ ~parse_throws(str, match.type)
           /\ tokens' = Append(tokens, Token(parse(str, match.type), match.type, line, pos))
           /\ line' = line + CountNewlines(str)
           /\ pos' = pos + match.len
    /\ UNCHANGED <<lib, first, input, pc, it, stack, ret, forms, nptr, log>>

\* std::stol throws std::out_of_range; nothing catches it, so it leaves read
tokenize_throw ==
    /\ pc = "tokenize"
    /\ pos <= Len(input)
    /\ \E match \in {REGEX(input, pos)} : \E str \in {MatchStr} : parse_throws(str, match.type)
    /\ pc' = "thrown"
    /\ UNCHANGED <<lib, first, input, pos, line, tokens, it, stack, ret, forms, nptr, log>>

\* no match is left: tokenize returns and read calls read_forms
tokenize_return ==
    /\ pc = "tokenize"
    /\ pos > Len(input)
    /\ pc' = "read_forms"
    /\ it' = 1
    /\ UNCHANGED <<lib, first, input, pos, line, tokens, stack, ret, forms, nptr, log>>

----------------------------------------------------------------------------
(* The reader *)

\* tokens->end()
End == Len(tokens) + 1

RECURSIVE read_useful_token_KeepingComments(_, _)
\* not the code: a comment token is taken for a useful one
read_useful_token_KeepingComments(toks, i) ==
    IF i > Len(toks) THEN 0
    ELSE IF toks[i].type = "WHITESPACE" THEN read_useful_token_KeepingComments(toks, i + 1)
    ELSE i

RECURSIVE read_useful_token(_, _)
\* the position of the first token at or after i that is neither whitespace
\* nor a comment, 0 for std::nullopt
read_useful_token(toks, i) ==
    IF i > Len(toks) THEN 0
    ELSE IF toks[i].type \in {"WHITESPACE", "COMMENT"} THEN read_useful_token(toks, i + 1)
    ELSE i

\* the text of a token that is a delimiter or a sugar token
Text(token) ==
    CASE token.type = "SPECIAL_CHAR" -> <<token.value.c>>
      [] token.type = "SPECIAL_CHARS" -> token.value.s
      [] OTHER -> <<>>

IsOpen(token) == Text(token) \in {<<"(">>, <<"[">>, <<"{">>, <<"#", "{">>}

IsClose(token) == Text(token) \in {<<")">>, <<"]">>, <<"}">>}

IsQuote(token) == Text(token) \in {<<"'">>, <<BQ>>, <<"~">>, <<"@">>, <<"~", "@">>}

IsMeta(token) == Text(token) = <<"^">>

\* the symbol token a sugar token is expanded to
ExpandedToken(token) ==
    Token([index |-> "STRING", s |-> SYMBOL_TO_NAME(Text(token))], "SYMBOL",
          token.line, token.column)

Frame(fn, form_type, token) ==
    [fn |-> fn, form_type |-> form_type, forms |-> <<>>, token |-> token, meta |-> <<>>]

Top == stack[Len(stack)]

Pop == SubSeq(stack, 1, Len(stack) - 1)

\* a call returns form with the cursor at cursor
Return(form, cursor) ==
    /\ ret' = <<form>>
    /\ it' = cursor
    /\ pc' = "return"

\* read_forms: read_useful_form finds a token and calls read_form on it
read_forms_call ==
    /\ pc = "read_forms"
    /\ read_useful_token(tokens, it) # 0
    /\ it' = read_useful_token(tokens, it)
    /\ pc' = "read_form"
    /\ UNCHANGED <<lib, first, input, pos, line, tokens, stack, ret, forms, nptr, log>>

\* read_forms: the form read is pushed and the loop goes on from the cursor returned
read_forms_push ==
    /\ pc = "return"
    /\ stack = <<>>
    /\ forms' = Append(forms, ret[1])
    /\ ret' = <<>>
    /\ pc' = "read_forms"
    /\ UNCHANGED <<lib, first, input, pos, line, tokens, it, stack, nptr, log>>

\* read_forms: no useful token is left; read returns forms
read_forms_return ==
    /\ pc = "read_forms"
    /\ read_useful_token(tokens, it) = 0
    /\ pc' = "done"
    /\ UNCHANGED <<lib, first, input, pos, line, tokens, it, stack, ret, forms, nptr, log>>

\* read_form on an opening delimiter: read_coll(tokens, ++it, type)
read_form_coll ==
    /\ pc = "read_form"
    /\ IsOpen(tokens[it])
    /\ stack' = Append(stack, Frame("read_coll", DELIMITER_TO_TYPE(Text(tokens[it])), <<>>))
    /\ it' = it + 1
    /\ pc' = "read_coll"
    /\ UNCHANGED <<lib, first, input, pos, line, tokens, ret, forms, nptr, log>>

\* not the code: the error is returned with the cursor just past the delimiter
read_form_unmatched_NoAbort ==
    /\ pc = "read_form"
    /\ IsClose(tokens[it])
    /\ Return(Special("ReaderError", UnmatchedDelimiter(tokens[it].value.c), <<tokens[it]>>), it + 1)
    /\ UNCHANGED <<lib, first, input, pos, line, tokens, stack, forms, nptr, log>>

\* read_form on a closing delimiter
read_form_unmatched ==
    /\ pc = "read_form"
    /\ IsClose(tokens[it])
    /\ Return(Special("ReaderError", UnmatchedDelimiter(tokens[it].value.c), <<tokens[it]>>), End)
    /\ UNCHANGED <<lib, first, input, pos, line, tokens, stack, forms, nptr, log>>

\* read_form on a quote, quasiquote, unquote, deref or splice-unquote token
read_form_quote ==
    /\ pc = "read_form"
    /\ IsQuote(tokens[it])
    /\ stack' = Append(stack, Frame("expand_quoted_form", "", <<ExpandedToken(tokens[it])>>))
    /\ it' = it + 1
    /\ pc' = "expand_quoted_form"
    /\ UNCHANGED <<lib, first, input, pos, line, tokens, ret, forms, nptr, log>>

\* read_form on the metadata token
read_form_meta ==
    /\ pc = "read_form"
    /\ IsMeta(tokens[it])
    /\ stack' = Append(stack, Frame("expand_meta_quoted_form", "", <<ExpandedToken(tokens[it])>>))
    /\ it' = it + 1
    /\ pc' = "expand_meta_quoted_form"
    /\ UNCHANGED <<lib, first, input, pos, line, tokens, ret, forms, nptr, log>>

\* the test read_form makes of a string literal: s.size() < 2 || s.back() != '"'
Unbalanced(s) == Len(s) < 2 \/ s[Len(s)] # DQ

\* not the code: the error is returned with the cursor just past the literal
read_form_string_error_NoAbort ==
    /\ pc = "read_form"
    /\ tokens[it].type = "STRING"
    /\ Unbalanced(tokens[it].value.s)
    /\ Return(Special("ReaderError", "EOF: unbalanced quote", <<tokens[it]>>), it + 1)
    /\ UNCHANGED <<lib, first, input, pos, line, tokens, stack, forms, nptr, log>>

\* read_form on a string literal that fails the test
read_form_string_error ==
    /\ pc = "read_form"
    /\ tokens[it].type = "STRING"
    /\ Unbalanced(tokens[it].value.s)
    /\ Return(Special("ReaderError", "EOF: unbalanced quote", <<tokens[it]>>), End)
    /\ UNCHANGED <<lib, first, input, pos, line, tokens, stack, forms, nptr, log>>

\* read_form on a string literal that passes it: token.value = s.substr(1, s.size() - 2)
read_form_string ==
    /\ pc = "read_form"
    /\ tokens[it].type = "STRING"
    /\ ~Unbalanced(tokens[it].value.s)
    /\ Return(Scalar([tokens[it] EXCEPT !.value =
                 [index |-> "STRING",
                  s |-> SubSeq(tokens[it].value.s, 2, Len(tokens[it].value.s) - 1)]]),
              it + 1)
    /\ UNCHANGED <<lib, first, input, pos, line, tokens, stack, forms, nptr, log>>

\* not the code: the token is returned with the cursor left on it
read_form_scalar_NoAdvance ==
    /\ pc = "read_form"
    /\ tokens[it].type # "STRING"
    /\ ~IsOpen(tokens[it]) /\ ~IsClose(tokens[it]) /\ ~IsQuote(tokens[it]) /\ ~IsMeta(tokens[it])
    /\ Return(Scalar(tokens[it]), it)
    /\ UNCHANGED <<lib, first, input, pos, line, tokens, stack, forms, nptr, log>>

\* read_form on any other token: the token itself
read_form_scalar ==
    /\ pc = "read_form"
    /\ tokens[it].type # "STRING"
    /\ ~IsOpen(tokens[it]) /\ ~IsClose(tokens[it]) /\ ~IsQuote(tokens[it]) /\ ~IsMeta(tokens[it])
    /\ Return(Scalar(tokens[it]), it + 1)
    /\ UNCHANGED <<lib, first, input, pos, line, tokens, stack, forms, nptr, log>>

\* read_coll: the tokens ran out
read_coll_eof ==
    /\ pc = "read_coll"
    /\ read_useful_token(tokens, it) = 0
    /\ stack' = Pop
    /\ Return(Special("ReaderError", EOFNoDelimiter(TYPE_TO_DELIMITER(Top.form_type)), <<>>), End)
    /\ UNCHANGED <<lib, first, input, pos, line, tokens, forms, nptr, log>>

\* the next useful token is the single special character c
NextIsChar(c) ==
    /\ read_useful_token(tokens, it) # 0
    /\ tokens[read_useful_token(tokens, it)].type = "SPECIAL_CHAR"
    /\ tokens[read_useful_token(tokens, it)].value.c = c

\* read_coll: the end delimiter of the collection is met
read_coll_close ==
    /\ pc = "read_coll"
    /\ NextIsChar(TYPE_TO_DELIMITER(Top.form_type))
    /\ \E order \in Orders(StoredCount(lib, Top.form_type, Top.forms)) :
          /\ Return(CollForm(lib, Top.form_type, Top.forms, nptr + 1, order),
                    read_useful_token(tokens, it) + 1)
          /\ IF Top.form_type \in {"MAP", "SET"}
             THEN /\ nptr' = nptr + 1
                  /\ log' = Append(log,
                        [form_type |-> Top.form_type, arg |-> Top.forms,
                         result |-> CollForm(lib, Top.form_type, Top.forms, nptr + 1, order)])
             ELSE UNCHANGED <<nptr, log>>
    /\ stack' = Pop
    /\ UNCHANGED <<lib, first, input, pos, line, tokens, forms>>

\* read_coll: a closing delimiter that is not the collection's is met
read_coll_unmatched ==
    /\ pc = "read_coll"
    /\ \E c \in {")", "]", "}"} :
          /\ c # TYPE_TO_DELIMITER(Top.form_type)
          /\ NextIsChar(c)
          /\ Return(Special("ReaderError", UnmatchedDelimiter(c),
                            <<tokens[read_useful_token(tokens, it)]>>), End)
    /\ stack' = Pop
    /\ UNCHANGED <<lib, first, input, pos, line, tokens, forms, nptr, log>>

\* read_coll: any other token starts a sub-form, read by read_form
read_coll_call ==
    /\ pc = "read_coll"
    /\ read_useful_token(tokens, it) # 0
    /\ \A c \in {")", "]", "}"} : ~NextIsChar(c)
    /\ it' = read_useful_token(tokens, it)
    /\ pc' = "read_form"
    /\ UNCHANGED <<lib, first, input, pos, line, tokens, stack, ret, forms, nptr, log>>

\* read_coll: the sub-form read is pushed and the loop goes on from the cursor returned
read_coll_push ==
    /\ pc = "return"
    /\ stack # <<>>
    /\ Top.fn = "read_coll"
    /\ stack' = [stack EXCEPT ![Len(stack)].forms = Append(@, ret[1])]
    /\ ret' = <<>>
    /\ pc' = "read_coll"
    /\ UNCHANGED <<lib, first, input, pos, line, tokens, it, forms, nptr, log>>

\* expand_quoted_form: a form follows; read_useful_form calls read_form on it
expand_quoted_form_call ==
    /\ pc = "expand_quoted_form"
    /\ read_useful_token(tokens, it) # 0
    /\ it' = read_useful_token(tokens, it)
    /\ pc' = "read_form"
    /\ UNCHANGED <<lib, first, input, pos, line, tokens, stack, ret, forms, nptr, log>>

\* expand_quoted_form: nothing follows
expand_quoted_form_eof ==
    /\ pc = "expand_quoted_form"
    /\ read_useful_token(tokens, it) = 0
    /\ stack' = Pop
    /\ Return(Special("ReaderError", "EOF: Nothing found after quote", Top.token), End)
    /\ UNCHANGED <<lib, first, input, pos, line, tokens, forms, nptr, log>>

\* expand_quoted_form: the list of the symbol and the form read
expand_quoted_form_return ==
    /\ pc = "return"
    /\ stack # <<>>
    /\ Top.fn = "expand_quoted_form"
    /\ stack' = Pop
    /\ Return(List(<<Scalar(Top.token[1]), ret[1]>>), it)
    /\ UNCHANGED <<lib, first, input, pos, line, tokens, forms, nptr, log>>

\* expand_meta_quoted_form: a form follows the metadata token
expand_meta_quoted_form_call ==
    /\ pc = "expand_meta_quoted_form"
    /\ read_useful_token(tokens, it) # 0
    /\ it' = read_useful_token(tokens, it)
    /\ pc' = "read_form"
    /\ UNCHANGED <<lib, first, input, pos, line, tokens, stack, ret, forms, nptr, log>>

\* expand_meta_quoted_form: nothing follows the metadata token
expand_meta_quoted_form_eof ==
    /\ pc = "expand_meta_quoted_form"
    /\ read_useful_token(tokens, it) = 0
    /\ stack' = Pop
    /\ Return(Special("ReaderError", "EOF: Nothing found after ^", Top.token), End)
    /\ UNCHANGED <<lib, first, input, pos, line, tokens, forms, nptr, log>>

\* expand_meta_quoted_form: the first form is read and a second one follows
expand_meta_quoted_form_call2 ==
    /\ pc = "return"
    /\ stack # <<>>
    /\ Top.fn = "expand_meta_quoted_form"
    /\ Top.meta = <<>>
    /\ read_useful_token(tokens, it) # 0
    /\ stack' = [stack EXCEPT ![Len(stack)].meta = <<ret[1]>>]
    /\ ret' = <<>>
    /\ it' = read_useful_token(tokens, it)
    /\ pc' = "read_form"
    /\ UNCHANGED <<lib, first, input, pos, line, tokens, forms, nptr, log>>

\* not the code: the message of the missing metadata form is given
expand_meta_quoted_form_eof2_WrongMessage ==
    /\ pc = "return"
    /\ stack # <<>>
    /\ Top.fn = "expand_meta_quoted_form"
    /\ Top.meta = <<>>
    /\ read_useful_token(tokens, it) = 0
    /\ stack' = Pop
    /\ Return(Special("ReaderError", "EOF: Nothing found after ^", Top.token), End)
    /\ UNCHANGED <<lib, first, input, pos, line, tokens, forms, nptr, log>>

\* expand_meta_quoted_form: the first form is read and nothing follows it
expand_meta_quoted_form_eof2 ==
    /\ pc = "return"
    /\ stack # <<>>
    /\ Top.fn = "expand_meta_quoted_form"
    /\ Top.meta = <<>>
    /\ read_useful_token(tokens, it) = 0
    /\ stack' = Pop
    /\ Return(Special("ReaderError", "EOF: Nothing found after metadata", Top.token), End)
    /\ UNCHANGED <<lib, first, input, pos, line, tokens, forms, nptr, log>>

\* expand_meta_quoted_form: the list of the symbol, the second form and the first
expand_meta_quoted_form_return ==
    /\ pc = "return"
    /\ stack # <<>>
    /\ Top.fn = "expand_meta_quoted_form"
    /\ Top.meta # <<>>
    /\ stack' = Pop
    /\ Return(List(<<Scalar(Top.token[1]), ret[1], Top.meta[1]>>), it)
    /\ UNCHANGED <<lib, first, input, pos, line, tokens, forms, nptr, log>>

Next ==
    \/ tokenize_match
    \/ tokenize_throw
    \/ tokenize_return
    \/ read_forms_call
    \/ read_forms_push
    \/ read_forms_return
    \/ read_form_coll
    \/ read_form_unmatched
    \/ read_form_quote
    \/ read_form_meta
    \/ read_form_string_error
    \/ read_form_string
    \/ read_form_scalar
    \/ read_coll_eof
    \/ read_coll_close
    \/ read_coll_unmatched
    \/ read_coll_call
    \/ read_coll_push
    \/ expand_quoted_form_call
    \/ expand_quoted_form_eof
    \/ expand_quoted_form_return
    \/ expand_meta_quoted_form_call
    \/ expand_meta_quoted_form_eof
    \/ expand_meta_quoted_form_call2
    \/ expand_meta_quoted_form_eof2
    \/ expand_meta_quoted_form_return

\* read.hpp
Spec == Init /\ [][Next]_vars

\* zachlisp.hpp
SpecZ == InitZ /\ [][Next]_vars

----------------------------------------------------------------------------
(* prStr and PRINT of zachlisp.hpp, and rep followed by a second READ *)

\* the characters of an error message
MessageText(m) ==
    CASE m = "Unmatched delimiter: )" ->
            <<"U", "n", "m", "a", "t", "c", "h", "e", "d", " ", "d", "e", "l", "i", "m", "i",
              "t", "e", "r", ":", " ", ")">>
      [] m = "Unmatched delimiter: ]" ->
            <<"U", "n", "m", "a", "t", "c", "h", "e", "d", " ", "d", "e", "l", "i", "m", "i",
              "t", "e", "r", ":", " ", "]">>
      [] m = "Unmatched delimiter: }" ->
            <<"U", "n", "m", "a", "t", "c", "h", "e", "d", " ", "d", "e", "l", "i", "m", "i",
              "t", "e", "r", ":", " ", "}">>
      [] m = "EOF: no ) found" ->
            <<"E", "O", "F", ":", " ", "n", "o", " ", ")", " ", "f", "o", "u", "n", "d">>
      [] m = "EOF: no ] found" ->
            <<"E", "O", "F", ":", " ", "n", "o", " ", "]", " ", "f", "o", "u", "n", "d">>
      [] m = "EOF: no } found" ->
            <<"E", "O", "F", ":", " ", "n", "o", " ", "}", " ", "f", "o", "u", "n", "d">>
      [] m = "Map must contain even number of forms" ->
            <<"M", "a", "p", " ", "m", "u", "s", "t", " ", "c", "o", "n", "t", "a", "i", "n",
              " ", "e", "v", "e", "n", " ", "n", "u", "m", "b", "e", "r", " ", "o", "f", " ",
              "f", "o", "r", "m", "s">>
      [] m = "EOF: unbalanced quote" ->
            <<"E", "O", "F", ":", " ", "u", "n", "b", "a", "l", "a", "n", "c", "e", "d", " ",
              "q", "u", "o", "t", "e">>
      [] m = "EOF: Nothing found after quote" ->
            <<"E", "O", "F", ":", " ", "N", "o", "t", "h", "i", "n", "g", " ", "f", "o", "u",
              "n", "d", " ", "a", "f", "t", "e", "r", " ", "q", "u", "o", "t", "e">>
      [] m = "EOF: Nothing found after metadata" ->
            <<"E", "O", "F", ":", " ", "N", "o", "t", "h", "i", "n", "g", " ", "f", "o", "u",
              "n", "d", " ", "a", "f", "t", "e", "r", " ", "m", "e", "t", "a", "d", "a", "t",
              "a">>
      [] m = "EOF: Nothing found after ^" ->
            <<"E", "O", "F", ":", " ", "N", "o", "t", "h", "i", "n", "g", " ", "f", "o", "u",
              "n", "d", " ", "a", "f", "t", "e", "r", " ", "^">>

DigitChar(n) ==
    CASE n = 0 -> "0" [] n = 1 -> "1" [] n = 2 -> "2" [] n = 3 -> "3" [] n = 4 -> "4"
      [] n = 5 -> "5" [] n = 6 -> "6" [] n = 7 -> "7" [] n = 8 -> "8" [] n = 9 -> "9"

RECURSIVE Increment(_)
\* the decimal digits of the number after the one d denotes
Increment(d) ==
    IF d = <<>> THEN <<"1">>
    ELSE IF d[Len(d)] = "9" THEN Increment(SubSeq(d, 1, Len(d) - 1)) \o <<"0">>
    ELSE SubSeq(d, 1, Len(d) - 1) \o <<DigitChar(DigitVal(d[Len(d)]) + 1)>>

RECURSIVE PadZeros(_, _)
PadZeros(d, n) == IF Len(d) >= n THEN d ELSE PadZeros(d \o <<"0">>, n)

\* std::to_string(double): the value with six digits after the point, rounded
\* (exact for the literals a double holds exactly enough, as those of the model)
to_string_double(ip, fp) ==
    IF Len(fp) <= 6 THEN ip \o <<".">> \o PadZeros(fp, 6)
    ELSE LET kept == ip \o SubSeq(fp, 1, 6)
             all == IF DigitVal(fp[7]) >= 5 THEN Increment(kept) ELSE kept
         IN SubSeq(all, 1, Len(all) - 6) \o <<".">> \o SubSeq(all, Len(all) - 5, Len(all))

\* prStr(token::Token)
prStr_Token(token) ==
    CASE token.value.index = "BOOL" ->
            IF token.value.b THEN <<"t", "r", "u", "e">> ELSE <<"f", "a", "l", "s", "e">>
      [] token.value.index = "CHAR" -> <<token.value.c>>
      [] token.value.index = "LONG" -> token.value.digits
      [] token.value.index = "DOUBLE" -> to_string_double(token.value.ip, token.value.fp)
      [] token.value.index = "STRING" ->
            IF token.type = "STRING" THEN <<DQ>> \o token.value.s \o <<DQ>> ELSE token.value.s

RECURSIVE prStr(_)

RECURSIVE prStr_list(_, _)
\* template prStr(T list): the items, a space before each one that does not
\* find s empty
prStr_list(s, list) ==
    IF list = <<>> THEN s
    ELSE prStr_list((IF Len(s) > 0 THEN s \o <<" ">> ELSE s) \o prStr(Head(list)), Tail(list))

RECURSIVE prStr_map(_, _)
\* prStr(form::FormWrapperMap)
prStr_map(s, entries) ==
    IF entries = <<>> THEN s
    ELSE prStr_map((IF Len(s) > 0 THEN s \o <<" ">> ELSE s)
                      \o prStr(Head(entries)[1]) \o <<" ">> \o prStr(Head(entries)[2]),
                   Tail(entries))

\* prStr(form::Form)
prStr(form) ==
    CASE form.tag = "SPECIAL" ->
            <<"#", "R", "e", "a", "d", "e", "r", "E", "r", "r", "o", "r", " ", DQ>>
               \o MessageText(form.message) \o <<DQ>>
      [] form.tag = "TOKEN" -> prStr_Token(form.token)
      [] form.tag = "LIST" -> <<"(">> \o prStr_list(<<>>, form.items) \o <<")">>
      [] form.tag = "VECTOR" -> <<"[">> \o prStr_list(<<>>, form.items) \o <<"]">>
      [] form.tag = "MAP" -> <<"{">> \o prStr_map(<<>>, form.entries) \o <<"}">>
      [] form.tag = "SET" -> <<"#", "{">> \o prStr_list(<<>>, form.items) \o <<"}">>

RECURSIVE PRINT(_)
\* PRINT: each form printed and followed by a newline
PRINT(fs) ==
    IF fs = <<>> THEN <<>> ELSE prStr(Head(fs)) \o <<NL>> \o PRINT(Tail(fs))

\* the forms READ returned are printed (PRINT(EVAL(READ(input))), EVAL being
\* the identity) and READ is called on the text printed
READ_printed ==
    /\ pc = "done"
    /\ lib = "zachlisp"
    /\ first = <<>>
    /\ first' = <<[input |-> input, forms |-> forms]>>
    /\ input' = PRINT(forms)
    /\ pc' = "tokenize"
    /\ pos' = 1
    /\ line' = 1
    /\ tokens' = <<>>
    /\ it' = 1
    /\ stack' = <<>>
    /\ ret' = <<>>
    /\ forms' = <<>>
    /\ UNCHANGED <<lib, nptr, log>>

NextRT ==
    \/ Next
    \/ READ_printed

\* zachlisp.hpp: READ, PRINT, and READ of the text printed
SpecRT == InitZ /\ [][NextRT]_vars

\* read.hpp, the program not stopping while it has a step to take: read is a
\* sequential function that runs until it returns
\* read of read.hpp or READ of zachlisp.hpp, on one text
SpecBoth == (Init \/ InitZ) /\ [][Next]_vars

SpecFair == Init /\ [][Next]_vars /\ WF_vars(Next)

----------------------------------------------------------------------------
(* What the properties speak of *)

RECURSIVE SubForms(_)
\* a form and the forms it contains, at any depth
SubForms(f) ==
    {f} \cup
    CASE f.tag \in {"LIST", "VECTOR", "SET"} ->
            UNION {SubForms(f.items[i]) : i \in 1..Len(f.items)}
      [] f.tag = "MAP" ->
            UNION {SubForms(f.entries[i][1]) \cup SubForms(f.entries[i][2]) :
                   i \in 1..Len(f.entries)}
      [] OTHER -> {}

\* every form the reader holds: those returned at top level, the one just
\* returned, the ones collected by the open calls, and what they contain
Pool ==
    UNION ({SubForms(forms[i]) : i \in 1..Len(forms)}
           \cup {SubForms(ret[i]) : i \in 1..Len(ret)}
           \cup UNION {{SubForms(stack[k].forms[i]) : i \in 1..Len(stack[k].forms)} :
                       k \in 1..Len(stack)}
           \cup UNION {{SubForms(stack[k].meta[i]) : i \in 1..Len(stack[k].meta)} :
                       k \in 1..Len(stack)})

RECURSIVE StructEq(_, _)
\* structural equality as the specification defines it: the same variant tag
\* and recursively equal contents, a token by kind and value, a List or
\* Vector element by element, a Map or Set as a set of entries
StructEq(a, b) ==
    /\ a.tag = b.tag
    /\ CASE a.tag = "TOKEN" -> a.token.type = b.token.type /\ a.token.value = b.token.value
         [] a.tag = "SPECIAL" ->
               /\ a.message = b.message
               /\ Len(a.token) = Len(b.token)
               /\ Len(a.token) = 1 =>
                     /\ a.token[1].type = b.token[1].type
                     /\ a.token[1].value = b.token[1].value
         [] a.tag \in {"LIST", "VECTOR"} ->
               /\ Len(a.items) = Len(b.items)
               /\ \A i \in 1..Len(a.items) : StructEq(a.items[i], b.items[i])
         [] a.tag = "SET" ->
               /\ \A i \in 1..Len(a.items) : \E j \in 1..Len(b.items) :
                     StructEq(a.items[i], b.items[j])
               /\ \A j \in 1..Len(b.items) : \E i \in 1..Len(a.items) :
                     StructEq(a.items[i], b.items[j])
         [] a.tag = "MAP" ->
               /\ \A i \in 1..Len(a.entries) : \E j \in 1..Len(b.entries) :
                     /\ StructEq(a.entries[i][1], b.entries[j][1])
                     /\ StructEq(a.entries[i][2], b.entries[j][2])
               /\ \A j \in 1..Len(b.entries) : \E i \in 1..Len(a.entries) :
                     /\ StructEq(a.entries[i][1], b.entries[j][1])
                     /\ StructEq(a.entries[i][2], b.entries[j][2])

IsError(f) == f.tag = "SPECIAL"

----------------------------------------------------------------------------
(* C1 *)

\* C1: for every input text, tokenize followed by read returns a sequence of
\* forms and no exception leaves read: the program never reaches the state
\* in which an exception has been thrown out of tokenize.
C1_NoExceptionLeavesRead == pc # "thrown"

----------------------------------------------------------------------------
(* C2 *)

\* C2: form::equals of read.hpp holds of two forms only when they have the
\* same variant tag and recursively equal contents; forms that differ in tag
\* or token kind are never equal, whatever their hashes.
C2_EqualsIsStructural ==
    lib = "read" => \A a, b \in Pool : equals(a, b) => StructEq(a, b)

----------------------------------------------------------------------------
(* C3 *)

\* C3: in zachlisp.hpp two structurally identical sub-forms, a nested Map or
\* Set included, are equal under form::equals wherever they were read, so
\* that a Set literal listing such a sub-form twice holds it once.
C3_IdenticalSubFormsAreOneElement ==
    lib = "zachlisp" =>
        /\ \A a, b \in Pool : StructEq(a, b) => equalsZ(a, b)
        /\ \A k \in 1..Len(log) :
              log[k].form_type = "SET" =>
                 \A i, j \in 1..Len(log[k].result.items) :
                     StructEq(log[k].result.items[i], log[k].result.items[j]) => i = j

----------------------------------------------------------------------------
(* C4 *)

\* a call of read_coll is about to run its loop
InReadColl == pc = "read_coll"

\* C4 as claimed: whenever a ReaderError was returned for a sub-form of a
\* collection, the form read_coll returns is that collection, holding the
\* sub-forms read, the error at its position (a Map with an odd number of
\* sub-forms aside, which C7 speaks of).
C4_ErrorStaysInCollection ==
    [][(/\ InReadColl
        /\ pc' = "return"
        /\ \E i \in 1..Len(Top.forms) : IsError(Top.forms[i])
        /\ ~(Top.form_type = "MAP" /\ Len(Top.forms) % 2 = 1))
       => /\ ret'[1].tag = Top.form_type
          /\ Top.form_type \in {"LIST", "VECTOR"} => ret'[1].items = Top.forms]_vars

\* C4 as amended: read_coll appends the form returned for a sub-form, a
\* ReaderError included, after the siblings read before it and goes on from
\* the cursor returned with it; a List or Vector closed by its delimiter
\* holds, in order, exactly the sub-forms read; and when the cursor came back
\* at end-of-stream read_coll returns the error EOF: no c found in place
\* of the collection, at end-of-stream.
C4_ErrorStaysUnlessAtEnd ==
    /\ [][(pc = "return" /\ stack # <<>> /\ Top.fn = "read_coll")
          => /\ Len(stack') = Len(stack)
             /\ stack'[Len(stack)].forms = Append(Top.forms, ret[1])
             /\ it' = it
             /\ pc' = "read_coll"]_vars
    /\ [][(InReadColl /\ NextIsChar(TYPE_TO_DELIMITER(Top.form_type))
             /\ Top.form_type \in {"LIST", "VECTOR"})
          => /\ ret'[1].tag = Top.form_type
             /\ ret'[1].items = Top.forms
             /\ stack' = Pop]_vars
    /\ [][(InReadColl /\ it = End)
          => /\ IsError(ret'[1])
             /\ ret'[1].message \in {"EOF: no ) found", "EOF: no ] found", "EOF: no } found"}
             /\ it' = End
             /\ stack' = Pop]_vars

\* a List was returned whose second sub-form is a ReaderError, between two
\* siblings that are not
C4_Witness ==
    \E i \in 1..Len(forms) :
        /\ forms[i].tag = "LIST"
        /\ Len(forms[i].items) = 3
        /\ ~IsError(forms[i].items[1])
        /\ IsError(forms[i].items[2])
        /\ ~IsError(forms[i].items[3])

----------------------------------------------------------------------------
(* C5 *)

\* the key/value pairs a Map literal lists, left to right
Pairs(arg) == [k \in 1..(Len(arg) \div 2) |-> <<arg[2 * k - 1], arg[2 * k]>>]

\* two Set literals list the same elements
SameElements(arg1, arg2) ==
    /\ \A i \in 1..Len(arg1) : \E j \in 1..Len(arg2) : StructEq(arg1[i], arg2[j])
    /\ \A j \in 1..Len(arg2) : \E i \in 1..Len(arg1) : StructEq(arg1[i], arg2[j])

\* two Map literals list the same key/value entries, the keys of each pairwise distinct
SameEntries(arg1, arg2) ==
    LET p1 == Pairs(arg1)
        p2 == Pairs(arg2)
    IN /\ Len(arg1) % 2 = 0 /\ Len(arg2) % 2 = 0
       /\ \A i, j \in 1..Len(p1) : i # j => ~StructEq(p1[i][1], p1[j][1])
       /\ \A i, j \in 1..Len(p2) : i # j => ~StructEq(p2[i][1], p2[j][1])
       /\ \A i \in 1..Len(p1) : \E j \in 1..Len(p2) :
             StructEq(p1[i][1], p2[j][1]) /\ StructEq(p1[i][2], p2[j][2])
       /\ \A j \in 1..Len(p2) : \E i \in 1..Len(p1) :
             StructEq(p1[i][1], p2[j][1]) /\ StructEq(p1[i][2], p2[j][2])

\* C5: in read.hpp any two Set forms built from the same elements, and any
\* two Map forms built from the same key/value entries with pairwise distinct
\* keys, have the same form::hash and are form::equals, in whatever order the
\* text lists them.
C5_HashIgnoresSourceOrder ==
    lib = "read" =>
        \A i, j \in 1..Len(log) :
            (\/ /\ log[i].form_type = "SET" /\ log[j].form_type = "SET"
                /\ SameElements(log[i].arg, log[j].arg)
             \/ /\ log[i].form_type = "MAP" /\ log[j].form_type = "MAP"
                /\ SameEntries(log[i].arg, log[j].arg))
            => /\ hash(log[i].result) = hash(log[j].result)
               /\ equals(log[i].result, log[j].result)

----------------------------------------------------------------------------
(* C6 *)

\* C6: in zachlisp.hpp, for every pair of forms read can produce,
\* form::equals(a, b) implies form::hash(a) = form::hash(b).
C6_EqualFormsHashAlike ==
    lib = "zachlisp" => \A a, b \in Pool : equalsZ(a, b) => hashZ(a) = hashZ(b)

\* two forms read from different places, hence holding tokens of different
\* positions, are equal
C6_Witness ==
    /\ lib = "zachlisp"
    /\ \E i, j \in 1..Len(forms) :
          /\ i # j
          /\ forms[i].tag = "LIST"
          /\ forms[i] # forms[j]
          /\ equalsZ(forms[i], forms[j])

----------------------------------------------------------------------------
(* C7 *)

\* C7: a Map body closed after an odd number of sub-forms yields, in place of
\* the Map, the error Map must contain even number of forms with no token,
\* and the cursor is left just past the closing brace; after an even number
\* the result is a Map whose entries pair the sub-forms left to right.
C7_MapPairsOrError ==
    /\ [](\A k \in 1..Len(log) :
            log[k].form_type = "MAP" =>
               IF Len(log[k].arg) % 2 = 1
               THEN log[k].result =
                      [tag |-> "SPECIAL", name |-> "ReaderError",
                       message |-> "Map must contain even number of forms", token |-> <<>>]
               ELSE /\ log[k].result.tag = "MAP"
                    /\ \A e \in 1..Len(log[k].result.entries) :
                          \E n \in 1..(Len(log[k].arg) \div 2) :
                              log[k].result.entries[e] = Pairs(log[k].arg)[n]
                    /\ \A n \in 1..(Len(log[k].arg) \div 2) :
                          \E e \in 1..Len(log[k].result.entries) :
                              SameKey(lib, log[k].result.entries[e][1], Pairs(log[k].arg)[n][1])
                    /\ Len(log[k].arg) > 0 =>
                          \E e \in 1..Len(log[k].result.entries) :
                              log[k].result.entries[e] = Pairs(log[k].arg)[1])
    /\ [][(InReadColl /\ Top.form_type = "MAP" /\ NextIsChar("}"))
          => /\ pc' = "return"
             /\ it' <= End
             /\ tokens[it' - 1].value = [index |-> "CHAR", c |-> "}"]
             /\ read_useful_token(tokens, it) = it' - 1
             /\ ret' = <<log'[Len(log')].result>>
             /\ log'[Len(log')].arg = Top.forms
             /\ Len(log') = Len(log) + 1]_vars

\* the error stands where the odd Map was, the sibling after it and the next
\* top-level form were read
C7_Witness ==
    /\ pc = "done"
    /\ Len(forms) = 2
    /\ forms[1].tag = "LIST"
    /\ Len(forms[1].items) = 3
    /\ forms[1].items[2].tag = "SPECIAL"
    /\ forms[1].items[2].message = "Map must contain even number of forms"
    /\ forms[1].items[3].tag = "TOKEN"
    /\ forms[2].tag = "TOKEN"

----------------------------------------------------------------------------
(* C8 *)

\* the error C8 names for a collection kind
C8_Expected(form_type) ==
    [tag |-> "SPECIAL", name |-> "ReaderError",
     message |-> CASE form_type = "LIST" -> "EOF: no ) found"
                   [] form_type = "VECTOR" -> "EOF: no ] found"
                   [] form_type = "MAP" -> "EOF: no } found"
                   [] form_type = "SET" -> "EOF: no } found",
     token |-> <<>>]

IsEOFNoDelimiter(f) ==
    IsError(f) /\ f.message \in {"EOF: no ) found", "EOF: no ] found", "EOF: no } found"}

\* C8: when the tokens run out before read_coll sees the closing delimiter
\* of its collection, it returns the error EOF: no c found with no token,
\* c being the closing delimiter of the collection kind, with the cursor at
\* end-of-stream; read produces no top-level form after the one holding it.
C8_EOFInsideCollection ==
    /\ [][(InReadColl /\ read_useful_token(tokens, it) = 0)
          => /\ ret' = <<C8_Expected(Top.form_type)>>
             /\ it' = End
             /\ pc' = "return"
             /\ stack' = Pop]_vars
    /\ [](\A i \in 1..Len(forms) :
            (\E f \in SubForms(forms[i]) : IsEOFNoDelimiter(f)) => i = Len(forms) /\ it = End)
    /\ []((\E f \in Pool : IsEOFNoDelimiter(f)) => it = End /\ pc # "read_form")

\* read is done and returned one form, the error of an unclosed Vector,
\* although whitespace followed the last sub-form
C8_Witness ==
    /\ pc = "done"
    /\ Len(forms) = 1
    /\ forms[1] = C8_Expected("VECTOR")
    /\ tokens[Len(tokens)].type = "WHITESPACE"

----------------------------------------------------------------------------
(* C9 *)

\* the error C9 names for the closing delimiter held by token
C9_Expected(token) ==
    [tag |-> "SPECIAL", name |-> "ReaderError",
     message |-> CASE token.value.c = ")" -> "Unmatched delimiter: )"
                   [] token.value.c = "]" -> "Unmatched delimiter: ]"
                   [] token.value.c = "}" -> "Unmatched delimiter: }",
     token |-> <<token>>]

IsCloser(token) ==
    token.type = "SPECIAL_CHAR" /\ token.value.c \in {")", "]", "}"}

IsUnmatched(f) ==
    IsError(f) /\ f.message \in {"Unmatched delimiter: )", "Unmatched delimiter: ]",
                                 "Unmatched delimiter: }"}

\* C9: a closing delimiter met by read_form, or met by read_coll when it is
\* not the closer of the collection being read (a brace closes Map and Set),
\* yields the error Unmatched delimiter: c carrying that token and sets the
\* cursor to end-of-stream, so that no token after it is read.
C9_UnmatchedDelimiter ==
    /\ [][(pc = "read_form" /\ IsCloser(tokens[it]))
          => /\ ret' = <<C9_Expected(tokens[it])>>
             /\ it' = End
             /\ pc' = "return"]_vars
    /\ [][(/\ InReadColl
           /\ read_useful_token(tokens, it) # 0
           /\ IsCloser(tokens[read_useful_token(tokens, it)])
           /\ tokens[read_useful_token(tokens, it)].value.c #
                 (CASE Top.form_type = "LIST" -> ")"
                    [] Top.form_type = "VECTOR" -> "]"
                    [] OTHER -> "}"))
          => /\ ret' = <<C9_Expected(tokens[read_useful_token(tokens, it)])>>
             /\ it' = End
             /\ pc' = "return"
             /\ stack' = Pop]_vars
    /\ []((\E f \in Pool : IsUnmatched(f)) => it = End /\ pc # "read_form")

\* a closing delimiter was met at top level with a token after it, which was not read
C9_Witness ==
    /\ pc = "done"
    /\ Len(tokens) = 2
    /\ Len(forms) = 1
    /\ IsCloser(tokens[1])
    /\ forms[1] = C9_Expected(tokens[1])
    /\ tokens[2].type = "SYMBOL"

----------------------------------------------------------------------------
(* C10 *)

RECURSIVE BackslashRun(_, _)
\* the number of consecutive backslashes of s that end at position i
BackslashRun(s, i) ==
    IF i >= 1 /\ s[i] = BS THEN 1 + BackslashRun(s, i - 1) ELSE 0

\* the literal s, which begins with a quote, has an unescaped closing quote
Terminated(s) ==
    /\ Len(s) >= 2
    /\ s[Len(s)] = DQ
    /\ BackslashRun(s, Len(s) - 1) % 2 = 0

\* C10: read_form turns a string literal that has its closing quote into a
\* Scalar holding the literal without its two quotes, and every string
\* literal left unterminated, one whose last two characters are a backslash
\* and a quote included, into the error EOF: unbalanced quote carrying the
\* token, never into a Scalar.
C10_UnterminatedStringIsError ==
    [][(pc = "read_form" /\ tokens[it].type = "STRING")
       => IF Terminated(tokens[it].value.s)
          THEN /\ ret'[1].tag = "TOKEN"
               /\ ret'[1].token.type = "STRING"
               /\ ret'[1].token.value =
                     [index |-> "STRING",
                      s |-> SubSeq(tokens[it].value.s, 2, Len(tokens[it].value.s) - 1)]
          ELSE ret' = <<[tag |-> "SPECIAL", name |-> "ReaderError",
                         message |-> "EOF: unbalanced quote", token |-> <<tokens[it]>>]>>]_vars

----------------------------------------------------------------------------
(* C11 *)

\* the name C11 gives for the text of a sugar token
C11_Name(text) ==
    CASE text = <<"'">> -> <<"q", "u", "o", "t", "e">>
      [] text = <<BQ>> -> <<"q", "u", "a", "s", "i", "q", "u", "o", "t", "e">>
      [] text = <<"~">> -> <<"u", "n", "q", "u", "o", "t", "e">>
      [] text = <<"@">> -> <<"d", "e", "r", "e", "f">>
      [] text = <<"~", "@">> ->
            <<"s", "p", "l", "i", "c", "e", "-", "u", "n", "q", "u", "o", "t", "e">>
      [] text = <<"^">> -> <<"w", "i", "t", "h", "-", "m", "e", "t", "a">>

\* the text of the input a token was made from
SourceText(token) ==
    SubSeq(input, token.column, token.column + REGEX(input, token.column).len - 1)

\* f is the symbol Scalar named name
IsSymbolNamed(f, name) ==
    /\ f.tag = "TOKEN"
    /\ f.token.type = "SYMBOL"
    /\ f.token.value = [index |-> "STRING", s |-> name]

\* the sugar token whose expansion the innermost open call is building
OpenSugar == CHOOSE t \in {tokens[k] : k \in 1..Len(tokens)} : t.column = Top.token[1].column

IsSugarText(text) == text \in {<<"'">>, <<BQ>>, <<"~">>, <<"@">>, <<"~", "@">>}

IsPlain(token) == token.type \in {"SYMBOL", "NUMBER"}

\* C11: a sugar token followed by a form X is read as the List of the symbol
\* the sugar names and X, the metadata token followed by M then X as the
\* List (with-meta X M), and the cursor returned is the one returned with X.
C11_SugarExpandsToList ==
    /\ [][(pc = "return" /\ stack # <<>> /\ Top.fn = "expand_quoted_form")
          => /\ IsSugarText(SourceText(OpenSugar))
             /\ ret'[1].tag = "LIST"
             /\ Len(ret'[1].items) = 2
             /\ IsSymbolNamed(ret'[1].items[1], C11_Name(SourceText(OpenSugar)))
             /\ ret'[1].items[2] = ret[1]
             /\ it' = it
             /\ stack' = Pop]_vars
    /\ [][(pc = "return" /\ stack # <<>> /\ Top.fn = "expand_meta_quoted_form"
             /\ Top.meta # <<>>)
          => /\ SourceText(OpenSugar) = <<"^">>
             /\ ret'[1].tag = "LIST"
             /\ Len(ret'[1].items) = 3
             /\ IsSymbolNamed(ret'[1].items[1], C11_Name(<<"^">>))
             /\ ret'[1].items[2] = ret[1]
             /\ ret'[1].items[3] = Top.meta[1]
             /\ it' = it
             /\ stack' = Pop]_vars
    /\ [](pc = "done" /\ Len(tokens) >= 2 /\ IsSugarText(SourceText(tokens[1]))
             /\ IsPlain(tokens[2])
          => /\ forms[1].tag = "LIST"
             /\ Len(forms[1].items) = 2
             /\ IsSymbolNamed(forms[1].items[1], C11_Name(SourceText(tokens[1])))
             /\ forms[1].items[2] = [tag |-> "TOKEN", token |-> tokens[2]]
             /\ Len(forms) > 1 <=> read_useful_token(tokens, 3) # 0)
    /\ [](pc = "done" /\ Len(tokens) >= 3 /\ SourceText(tokens[1]) = <<"^">>
             /\ IsPlain(tokens[2]) /\ IsPlain(tokens[3])
          => /\ forms[1].tag = "LIST"
             /\ Len(forms[1].items) = 3
             /\ IsSymbolNamed(forms[1].items[1], C11_Name(<<"^">>))
             /\ forms[1].items[2] = [tag |-> "TOKEN", token |-> tokens[3]]
             /\ forms[1].items[3] = [tag |-> "TOKEN", token |-> tokens[2]]
             /\ Len(forms) > 1 <=> read_useful_token(tokens, 4) # 0)

\* the metadata token, a Map, a Vector and a number were read: the first form
\* is (with-meta Vector Map) and the number after it was read as well
C11_Witness ==
    /\ pc = "done"
    /\ Len(forms) = 2
    /\ forms[1].tag = "LIST"
    /\ Len(forms[1].items) = 3
    /\ IsSymbolNamed(forms[1].items[1], C11_Name(<<"^">>))
    /\ forms[1].items[2].tag = "VECTOR"
    /\ forms[1].items[3].tag = "MAP"
    /\ forms[2].tag = "TOKEN"

----------------------------------------------------------------------------
(* C12 *)

\* f is a ReaderError with this message that carries a token
IsErrorSaying(f, message) ==
    /\ f.tag = "SPECIAL"
    /\ f.name = "ReaderError"
    /\ f.message = message
    /\ Len(f.token) = 1

\* C12: a sugar token followed by nothing but whitespace and comments up to
\* the end of the tokens is read as a ReaderError, with the cursor at
\* end-of-stream: EOF: Nothing found after quote for the five quoting
\* tokens; for the metadata token EOF: Nothing found after ^ when the
\* metadata form is missing and EOF: Nothing found after metadata when it
\* was read and the target is missing.
C12_SugarAtEndIsError ==
    /\ [](pc \in {"expand_quoted_form", "expand_meta_quoted_form"}
          => /\ stack # <<>>
             /\ it >= 2
             /\ tokens[it - 1].column = Top.token[1].column
             /\ pc = "expand_quoted_form" <=> IsSugarText(SourceText(tokens[it - 1]))
             /\ pc = "expand_meta_quoted_form" <=> SourceText(tokens[it - 1]) = <<"^">>)
    /\ [][(pc = "expand_quoted_form" /\ read_useful_token(tokens, it) = 0)
          => /\ IsErrorSaying(ret'[1], "EOF: Nothing found after quote")
             /\ it' = End
             /\ pc' = "return"
             /\ stack' = Pop]_vars
    /\ [][(pc = "expand_meta_quoted_form" /\ read_useful_token(tokens, it) = 0)
          => /\ IsErrorSaying(ret'[1], "EOF: Nothing found after ^")
             /\ it' = End
             /\ pc' = "return"
             /\ stack' = Pop]_vars
    /\ [][(pc = "return" /\ stack # <<>> /\ Top.fn = "expand_meta_quoted_form"
             /\ Top.meta = <<>> /\ read_useful_token(tokens, it) = 0)
          => /\ IsErrorSaying(ret'[1], "EOF: Nothing found after metadata")
             /\ it' = End
             /\ pc' = "return"
             /\ stack' = Pop]_vars
    /\ [](pc = "done" /\ Len(tokens) >= 1 /\ read_useful_token(tokens, 2) = 0
          => /\ IsSugarText(SourceText(tokens[1]))
                => Len(forms) = 1 /\ IsErrorSaying(forms[1], "EOF: Nothing found after quote")
             /\ SourceText(tokens[1]) = <<"^">>
                => Len(forms) = 1 /\ IsErrorSaying(forms[1], "EOF: Nothing found after ^"))
    /\ [](pc = "done" /\ Len(tokens) >= 2 /\ SourceText(tokens[1]) = <<"^">>
             /\ IsPlain(tokens[2]) /\ read_useful_token(tokens, 3) = 0
          => Len(forms) = 1 /\ IsErrorSaying(forms[1], "EOF: Nothing found after metadata"))

\* the metadata token and one form were read and nothing followed
C12_Witness ==
    /\ pc = "done"
    /\ Len(tokens) = 2
    /\ IsPlain(tokens[2])
    /\ Len(forms) = 1
    /\ IsErrorSaying(forms[1], "EOF: Nothing found after metadata")

----------------------------------------------------------------------------
(* C13 *)

RECURSIVE ScalarsAndNesting(_, _, _)
\* the text s, from offset p on, is made of integers, booleans, symbols,
\* terminated string literals and whitespace between them, inside List and
\* Vector delimiters that balance; open holds the closers still awaited
ScalarsAndNesting(s, p, open) ==
    IF p > Len(s) THEN open = <<>>
    ELSE LET m == REGEX(s, p)
             str == SubSeq(s, p, p + m.len - 1)
             rest(o) == ScalarsAndNesting(s, p + m.len, o)
         IN CASE m.type = "WHITESPACE" -> rest(open)
              [] m.type = "SYMBOL" -> rest(open)
              [] m.type = "NUMBER" -> ~HasDot(str) /\ rest(open)
              [] m.type = "STRING" -> Terminated(str) /\ rest(open)
              [] m.type = "SPECIAL_CHAR" /\ str = <<"(">> -> rest(<<")">> \o open)
              [] m.type = "SPECIAL_CHAR" /\ str = <<"[">> -> rest(<<"]">> \o open)
              [] m.type = "SPECIAL_CHAR" /\ str \in {<<")">>, <<"]">>} ->
                    open # <<>> /\ Head(open) = str[1] /\ rest(Tail(open))
              [] OTHER -> FALSE

\* C13: for every text made only of scalars and balanced List/Vector nesting,
\* READ returns its forms, and reading the text PRINT gives for them returns
\* as many forms, pairwise equal under form::equals of zachlisp.hpp to the
\* forms of the first read; (1 2 3) is printed as (1 2 3).
C13_PrintReadRoundTrip ==
    /\ (first = <<>> /\ ScalarsAndNesting(input, 1, <<>>)) => pc # "thrown"
    /\ (first # <<>> /\ ScalarsAndNesting(first[1].input, 1, <<>>))
          => /\ pc # "thrown"
             /\ pc = "done"
                   => /\ Len(forms) = Len(first[1].forms)
                      /\ \A i \in 1..Len(forms) : equalsZ(forms[i], first[1].forms[i])
    /\ (pc = "done" /\ first = <<>> /\ input = <<"(", "1", " ", "2", " ", "3", ")">>)
          => /\ Len(forms) = 1
             /\ prStr(forms[1]) = <<"(", "1", " ", "2", " ", "3", ")">>

----------------------------------------------------------------------------
(* C14 *)

\* the tokens are the successive matches of the pattern from the start of
\* the input, none left out, each of the kind of its match
TokensTile ==
    /\ \A k \in 1..Len(tokens) :
          /\ tokens[k].column = (IF k = 1 THEN 1
                                 ELSE tokens[k - 1].column
                                        + REGEX(input, tokens[k - 1].column).len)
          /\ tokens[k].type = REGEX(input, tokens[k].column).type
    /\ pc \notin {"tokenize", "thrown"} =>
          IF tokens = <<>> THEN input = <<>>
          ELSE tokens[Len(tokens)].column + REGEX(input, tokens[Len(tokens)].column).len
                  = Len(input) + 1

\* C14: tokenize keeps the whitespace and comment tokens in the sequence it
\* returns, and in every form the reader holds or returns, at any depth, a
\* Scalar is a string-literal, number or symbol token.
C14_ScalarsAreUsefulTokens ==
    /\ TokensTile
    /\ \A f \in Pool : f.tag = "TOKEN" => f.token.type \in {"STRING", "NUMBER", "SYMBOL"}

\* a Vector of two Scalars was read from tokens that hold whitespace and a comment
C14_Witness ==
    /\ pc = "done"
    /\ Len(forms) = 1
    /\ forms[1].tag = "VECTOR"
    /\ Len(forms[1].items) = 2
    /\ \A i \in 1..2 : forms[1].items[i].tag = "TOKEN"
    /\ \E k \in 1..Len(tokens) : tokens[k].type = "WHITESPACE"
    /\ \E k \in 1..Len(tokens) : tokens[k].type = "COMMENT"

----------------------------------------------------------------------------
(* C15 *)

\* the text (+ 1 2)
PlusOneTwo == <<"(", "+", " ", "1", " ", "2", ")">>

\* the kinds of the tokens
Kinds == [k \in 1..Len(tokens) |-> tokens[k].type]

\* the texts of the tokens
Texts == [k \in 1..Len(tokens) |-> SourceText(tokens[k])]

\* the tokens that are not whitespace
NotWhitespace == SelectSeq(tokens, LAMBDA t : t.type # "WHITESPACE")

\* tokenize has returned, for the text handed to read
Tokenized == first = <<>> /\ pc \notin {"tokenize", "thrown"}

\* C15 as claimed: for (+ 1 2) tokenize returns exactly five tokens, of kinds
\* single-char-special, symbol, number, number, single-char-special and texts
\* ( + 1 2 ); for the empty string it returns the empty sequence.
C15_FiveTokens ==
    /\ (Tokenized /\ input = PlusOneTwo)
          => /\ Len(tokens) = 5
             /\ Kinds = <<"SPECIAL_CHAR", "SYMBOL", "NUMBER", "NUMBER", "SPECIAL_CHAR">>
             /\ Texts = <<<<"(">>, <<"+">>, <<"1">>, <<"2">>, <<")">>>>
    /\ (Tokenized /\ input = <<>>) => tokens = <<>>

\* C15 as amended: tokenize returns, in source order, one token per match of
\* the pattern, whitespace and comments included, each of the kind of the
\* first alternative that matches at its position: for (+ 1 2) seven tokens,
\* the five of the claim and the two runs of whitespace between them; for
\* the empty string the empty sequence.
C15_SevenTokens ==
    /\ TokensTile
    /\ (Tokenized /\ input = PlusOneTwo)
          => /\ Len(tokens) = 7
             /\ Kinds = <<"SPECIAL_CHAR", "SYMBOL", "WHITESPACE", "NUMBER", "WHITESPACE",
                          "NUMBER", "SPECIAL_CHAR">>
             /\ Texts = <<<<"(">>, <<"+">>, <<" ">>, <<"1">>, <<" ">>, <<"2">>, <<")">>>>
             /\ [k \in 1..Len(NotWhitespace) |-> NotWhitespace[k].type]
                   = <<"SPECIAL_CHAR", "SYMBOL", "NUMBER", "NUMBER", "SPECIAL_CHAR">>
             /\ [k \in 1..Len(NotWhitespace) |-> SourceText(NotWhitespace[k])]
                   = <<<<"(">>, <<"+">>, <<"1">>, <<"2">>, <<")">>>>
    /\ (Tokenized /\ input = <<>>) => tokens = <<>>

\* (+ 1 2) was tokenized and read
C15_Witness ==
    /\ pc = "done"
    /\ first = <<>>
    /\ input = PlusOneTwo
    /\ Len(tokens) = 7
    /\ Len(forms) = 1

----------------------------------------------------------------------------
(* C16 *)

\* the characters C16 keeps out of a symbol: whitespace, the comma, the
\* double quote, the semicolon, the delimiters and the sugar characters
C16_Forbidden ==
    {" ", NL, "\t", ",", DQ, ";", "(", ")", "[", "]", "{", "}", "'", BQ, "~", "^", "@"}

\* C16: the text of every symbol token produced by tokenize holds, at no
\* position, whitespace, a comma, a double quote, a semicolon, a delimiter or
\* a sugar character.
C16_SymbolHoldsNoSpecialCharacter ==
    \A k \in 1..Len(tokens) :
        tokens[k].type = "SYMBOL" =>
            \A i \in 1..Len(SourceText(tokens[k])) :
                SourceText(tokens[k])[i] \notin C16_Forbidden

----------------------------------------------------------------------------
(* C17 *)

\* f is a ReaderError other than the one of a Map with an odd number of forms
IsAbortingError(f) ==
    IsError(f) /\ f.message # "Map must contain even number of forms"

\* C17: only the last top-level form returned by read can be or contain, at
\* any depth, a ReaderError other than Map must contain even number of
\* forms: such an error is returned with the cursor at end-of-stream, and
\* from then on no token is consumed and no further top-level form is read.
C17_AbortingErrorOnlyInLastForm ==
    /\ [](\A i \in 1..Len(forms) :
            (\E f \in SubForms(forms[i]) : IsAbortingError(f))
               => i = Len(forms) /\ it = End /\ pc \in {"read_forms", "done"})
    /\ []((\E f \in Pool : IsAbortingError(f)) => it = End /\ pc # "read_form")
    /\ [][(pc' = "return" /\ IsAbortingError(ret'[1])) => it' = End]_vars
    /\ [][(\E f \in Pool : IsAbortingError(f))
             => /\ it' = End
                /\ tokens' = tokens
                /\ Len(forms') <= Len(forms) + 1
                /\ (Len(forms') = Len(forms) + 1 =>
                       ~ \E i \in 1..Len(forms) :
                           \E f \in SubForms(forms[i]) : IsAbortingError(f))]_vars

\* read returned two forms: the error of an odd Map, then the error of a
\* List left open
C17_Witness ==
    /\ pc = "done"
    /\ Len(forms) = 2
    /\ IsError(forms[1])
    /\ ~IsAbortingError(forms[1])
    /\ IsAbortingError(forms[2])

----------------------------------------------------------------------------
(* C18 *)

\* the rank of the place the reader is at, among the states of one cursor
\* position and one depth of calls
ReaderRank ==
    CASE pc = "return" -> 2
      [] pc \in {"read_forms", "read_coll", "expand_quoted_form", "expand_meta_quoted_form"} -> 1
      [] OTHER -> 0

\* a natural number that every step of the reader makes smaller: the tokens
\* left after the cursor first, then the depth of the open calls, then the rank
ReaderMeasure ==
    (End - it) * (3 * Len(tokens) + 6) + 3 * Len(stack) + ReaderRank

InReader == pc \notin {"tokenize", "thrown", "done"}

\* C18: read terminates on every finite token sequence: read_form is only
\* called with the cursor on a token, the cursor never moves back, every call
\* of read_form moves it strictly forward (to a later token or to
\* end-of-stream), each step of the reader lowers a natural-number measure,
\* and read_forms, once called, returns.
C18_ReadTerminates ==
    /\ [](pc = "read_form" => it >= 1 /\ it <= Len(tokens))
    /\ [](InReader => it >= 1 /\ it <= End /\ ReaderMeasure >= 0)
    /\ [][InReader => it' >= it]_vars
    /\ [][pc = "read_form" => it' > it /\ it' <= End]_vars
    /\ [][(InReader /\ pc' = "return" /\ pc # "return") => it' > it \/ it' = End]_vars
    /\ [][InReader => ReaderMeasure' < ReaderMeasure]_vars
    /\ (pc = "read_forms") ~> (pc = "done")

\* read returned after two turns of the loop of read_forms, each calling read_coll
C18_Witness ==
    /\ pc = "done"
    /\ it = End
    /\ Len(forms) = 2
    /\ forms[1].tag = "SET"
    /\ Len(forms[1].items) = 2
    /\ forms[2].tag = "SET"

----------------------------------------------------------------------------
(* C19 *)

\* form::equals of the header that is reading
FormEquals(a, b) == IF lib = "read" THEN equals(a, b) ELSE equalsZ(a, b)

\* the first pair of list whose key equals the key of pair k
FirstPair(list, k) ==
    CHOOSE j \in 1..k :
        /\ FormEquals(list[2 * j - 1], list[2 * k - 1])
        /\ \A h \in 1..(j - 1) : ~FormEquals(list[2 * h - 1], list[2 * k - 1])

\* the first element of list that equals element k
FirstItem(list, k) ==
    CHOOSE j \in 1..k :
        /\ FormEquals(list[j], list[k])
        /\ \A h \in 1..(j - 1) : ~FormEquals(list[h], list[k])

\* a Map was built from list, and list names one key twice
DuplicateKey(e) ==
    /\ e.form_type = "MAP"
    /\ Len(e.arg) % 2 = 0
    /\ \E j, k \in 1..(Len(e.arg) \div 2) : j < k /\ FormEquals(e.arg[2 * j - 1], e.arg[2 * k - 1])

\* a Set was built from list, and list names one element twice
DuplicateItem(e) ==
    /\ e.form_type = "SET"
    /\ \E j, k \in 1..Len(e.arg) : j < k /\ FormEquals(e.arg[j], e.arg[k])

\* C19: a Map built from an even number of forms holds, for each key of the
\* literal, exactly one entry with an equal key, and that entry is the first
\* pair of the literal with such a key (its key and its value, as written
\* there); a Set holds, for each element of the literal, exactly one equal
\* element, the first one of the literal.
C19_FirstOccurrenceKept ==
    \A n \in 1..Len(log) :
        LET e == log[n] IN
        /\ (e.form_type = "MAP" /\ Len(e.arg) % 2 = 0) =>
              /\ e.result.tag = "MAP"
              /\ \A k \in 1..(Len(e.arg) \div 2) :
                    LET stored == {i \in 1..Len(e.result.entries) :
                                      FormEquals(e.result.entries[i][1], e.arg[2 * k - 1])}
                        j == FirstPair(e.arg, k)
                    IN /\ Cardinality(stored) = 1
                       /\ \A i \in stored :
                             e.result.entries[i] = <<e.arg[2 * j - 1], e.arg[2 * j]>>
        /\ e.form_type = "SET" =>
              /\ e.result.tag = "SET"
              /\ \A k \in 1..Len(e.arg) :
                    LET stored == {i \in 1..Len(e.result.items) :
                                      FormEquals(e.result.items[i], e.arg[k])}
                    IN /\ Cardinality(stored) = 1
                       /\ \A i \in stored : e.result.items[i] = e.arg[FirstItem(e.arg, k)]

\* {a 1 a 2} #{a a} was read by zachlisp.hpp: the Map and the Set were built, each from a literal naming a twice
C19_Witness ==
    /\ pc = "done"
    /\ lib = "zachlisp"
    /\ Len(log) = 2
    /\ DuplicateKey(log[1])
    /\ Len(log[1].result.entries) = 1
    /\ DuplicateItem(log[2])
    /\ Len(log[2].result.items) = 1

====
